---- MODULE Spec2Model ----
(***************************************************************************)
(* Custom properties of components/style/custom_properties.rs: parsing a   *)
(* declaration value and collecting its var() references, cascading the    *)
(* declarations of one element over the inherited map, finding reference   *)
(* cycles and substituting var() calls to build the map handed on to the   *)
(* element's descendants.                                                  *)
(*                                                                         *)
(* A source text is a sequence of tokens, each token the verbatim piece of *)
(* text the tokenizer reads it from; a position is an index into that      *)
(* sequence (the next token to read) and a slice is a subsequence, so a    *)
(* text is compared token by token, verbatim.                              *)
(***************************************************************************)
EXTENDS Integers, Sequences, FiniteSets, TLC

(***************************************************************************)
(* Tokens.                                                                 *)
(***************************************************************************)
WhiteSpace == " "
Comma == ","
Semicolon == ";"
DelimBang == "!"
VarFunction == "var("
OtherFunctions == {"calc("}
BadTokens == {"bad-url(", "\"bad-string"}
CloseTokens == {")", "]", "}"}

\* The name of a custom property identifier without its "--" prefix.
StripPrefix == [tok \in {"--a", "--b", "--c", "--d", "--x", "--u"} |->
                  CASE tok = "--a" -> "a"
                    [] tok = "--b" -> "b"
                    [] tok = "--c" -> "c"
                    [] tok = "--d" -> "d"
                    [] tok = "--x" -> "x"
                    [] tok = "--u" -> "u"]

\* The tokens that are identifiers.
Idents == DOMAIN StripPrefix \cup {"blue", "red"}

\* No block: the top level of a value has no closing delimiter, and the
\* parser is not at the start of a block.
NoBlock == ""

\* The closing delimiter of the block a token opens, NoBlock for a token
\* that opens none.
BlockCloser(tok) ==
    CASE tok = VarFunction \/ tok \in OtherFunctions \/ tok = "(" -> ")"
      [] tok = "[" -> "]"
      [] tok = "{" -> "}"
      [] OTHER -> NoBlock

Slice(src, from, to) == SubSeq(src, from, to - 1)

\* In(value): the value is computed once, then used by In.
Let(value, In(_)) == CHOOSE result \in {In(v) : v \in {value}} : TRUE

(***************************************************************************)
(* The tokenizer's parser, as the code uses it.  A parser is a position    *)
(* and the block it has just read the opening token of (at_start_of).      *)
(***************************************************************************)
NewParser == [pos |-> 1, at_start_of |-> NoBlock]

RECURSIVE consume_until_end_of_block(_, _, _)
consume_until_end_of_block(src, pos, closer) ==
    IF pos > Len(src) THEN pos
    ELSE IF src[pos] = closer THEN pos + 1
    ELSE IF BlockCloser(src[pos]) # NoBlock
         THEN Let(consume_until_end_of_block(src, pos + 1, BlockCloser(src[pos])),
                  LAMBDA after : consume_until_end_of_block(src, after, closer))
         ELSE consume_until_end_of_block(src, pos + 1, closer)

RECURSIVE SkipWhiteSpace(_, _)
SkipWhiteSpace(src, pos) ==
    IF pos <= Len(src) /\ src[pos] = WhiteSpace
    THEN SkipWhiteSpace(src, pos + 1)
    ELSE pos

\* input.next(): skips a block opened and not parsed, then white space; an
\* error at the end of the input and before the closing delimiter of the
\* block being parsed (stop).
next(src, input, stop) ==
    Let(SkipWhiteSpace(src, IF input.at_start_of # NoBlock
                            THEN consume_until_end_of_block(src, input.pos,
                                                            input.at_start_of)
                            ELSE input.pos),
        LAMBDA p :
        IF p > Len(src) \/ src[p] = stop
        THEN [ok |-> FALSE, token |-> "",
              input |-> [pos |-> p, at_start_of |-> NoBlock]]
        ELSE [ok |-> TRUE, token |-> src[p],
              input |-> [pos |-> p + 1, at_start_of |-> BlockCloser(src[p])]])

\* The parser handed to the closure of input.parse_nested_block.
NestedParser(input) == [pos |-> input.pos, at_start_of |-> NoBlock]

\* The end of input.parse_nested_block once its closure has returned with
\* the nested parser at `input`: a block opened and not parsed is skipped,
\* it is an error unless the block is then exhausted, and the outer parser
\* is left after the block's closing delimiter.
parse_nested_block_end(src, input, closer) ==
    Let(IF input.at_start_of # NoBlock
        THEN consume_until_end_of_block(src, input.pos, input.at_start_of)
        ELSE input.pos,
        LAMBDA p :
        [ok |-> ~next(src, [pos |-> p, at_start_of |-> NoBlock], closer).ok,
         input |-> [pos |-> consume_until_end_of_block(src, p, closer),
                    at_start_of |-> NoBlock]])

(***************************************************************************)
(* parse: a value's text and the names its var() functions refer to.       *)
(***************************************************************************)
RECURSIVE parse_declaration_value(_, _, _, _)
RECURSIVE parse_declaration_value_tokens(_, _, _, _)
RECURSIVE parse_declaration_value_block(_, _, _, _)
RECURSIVE parse_var_function(_, _, _, _)

ParseErr(input, references) ==
    [ok |-> FALSE, input |-> input, references |-> references]

ParseOk(input, references) ==
    [ok |-> TRUE, input |-> input, references |-> references]

parse_declaration_value(src, input, stop, references) ==
    IF ~next(src, input, stop).ok
    THEN ParseErr(input, references)
    ELSE parse_declaration_value_tokens(src, input, stop, references)

\* input.parse_nested_block(|input| parse_var_function(input, references))
ParseVarBlock(src, input, references) ==
    Let(parse_var_function(src, NestedParser(input), ")", references), LAMBDA r :
        Let(parse_nested_block_end(src, r.input, ")"), LAMBDA e :
            IF r.ok /\ e.ok THEN ParseOk(e.input, r.references)
                            ELSE ParseErr(e.input, r.references)))

\* input.parse_nested_block(|input| parse_declaration_value_block(input, references))
ParseBlock(src, input, closer, references) ==
    Let(parse_declaration_value_block(src, NestedParser(input), closer, references),
        LAMBDA r :
        Let(parse_nested_block_end(src, r.input, closer), LAMBDA e :
            IF r.ok /\ e.ok THEN ParseOk(e.input, r.references)
                            ELSE ParseErr(e.input, r.references)))

\* while let Ok(token) = input.next()
parse_declaration_value_tokens(src, input, stop, references) ==
    Let(next(src, input, stop), LAMBDA t :
        IF ~t.ok THEN ParseOk(t.input, references)
        ELSE IF t.token \in BadTokens \cup CloseTokens \cup {Semicolon, DelimBang}
        THEN ParseErr(t.input, references)
        ELSE Let(IF t.token = VarFunction
                 THEN ParseVarBlock(src, t.input, references)
                 ELSE IF BlockCloser(t.token) # NoBlock
                 THEN ParseBlock(src, t.input, BlockCloser(t.token), references)
                 ELSE ParseOk(t.input, references),
                 LAMBDA r :
                 IF r.ok
                 THEN parse_declaration_value_tokens(src, r.input, stop, r.references)
                 ELSE r))

parse_declaration_value_block(src, input, stop, references) ==
    Let(next(src, input, stop), LAMBDA t :
        IF ~t.ok THEN ParseOk(t.input, references)
        ELSE IF t.token \in BadTokens \cup CloseTokens
        THEN ParseErr(t.input, references)
        ELSE Let(IF t.token = VarFunction
                 THEN ParseVarBlock(src, t.input, references)
                 ELSE IF BlockCloser(t.token) # NoBlock
                 THEN ParseBlock(src, t.input, BlockCloser(t.token), references)
                 ELSE ParseOk(t.input, references),
                 LAMBDA r :
                 IF r.ok
                 THEN parse_declaration_value_block(src, r.input, stop, r.references)
                 ELSE r))

\* A plausible slip: the fallback is scanned by the nested rule.
parse_var_function_nested_fallback(src, input, stop, references) ==
    Let(next(src, input, stop), LAMBDA name :
        IF ~name.ok \/ name.token \notin Idents THEN ParseErr(name.input, references)
        ELSE IF name.token \notin DOMAIN StripPrefix THEN ParseErr(name.input, references)
        ELSE Let(next(src, name.input, stop), LAMBDA comma :
                 IF comma.ok /\ comma.token = Comma
                 THEN Let(parse_declaration_value_block(src, comma.input, stop, references),
                          LAMBDA r :
                          IF r.ok
                          THEN ParseOk(r.input, r.references \cup {StripPrefix[name.token]})
                          ELSE r)
                 ELSE ParseOk(comma.input,
                              references \cup {StripPrefix[name.token]})))

parse_var_function(src, input, stop, references) ==
    Let(next(src, input, stop), LAMBDA name :
        IF ~name.ok \/ name.token \notin Idents THEN ParseErr(name.input, references)
        ELSE IF name.token \notin DOMAIN StripPrefix THEN ParseErr(name.input, references)
        ELSE Let(next(src, name.input, stop), LAMBDA comma :
                 IF comma.ok /\ comma.token = Comma
                 THEN Let(parse_declaration_value(src, comma.input, stop, references),
                          LAMBDA r :
                          IF r.ok
                          THEN ParseOk(r.input, r.references \cup {StripPrefix[name.token]})
                          ELSE r)
                 ELSE ParseOk(comma.input,
                              references \cup {StripPrefix[name.token]})))

\* The result of parse: NoValue for Err(()).
NoValue == [ok |-> FALSE]

parse(src) ==
    Let(parse_declaration_value(src, NewParser, NoBlock, {}), LAMBDA r :
        IF r.ok
        THEN [ok |-> TRUE, value |-> Slice(src, 1, r.input.pos),
              references |-> r.references]
        ELSE NoValue)

(***************************************************************************)
(* Options, maps and the values of one cascade.                            *)
(***************************************************************************)
None == [some |-> FALSE]

\* Option<&HashSet<Atom>>
SomeReferences(set) == [some |-> TRUE, set |-> set]

\* Option<HashMap<&Atom, BorrowedValue>>
SomeMap(map) == [some |-> TRUE, map |-> map]

\* Option<Arc<HashMap<Atom, String>>>: arc is the identity of the shared
\* allocation, map its content.
SomeArc(arc, map) == [some |-> TRUE, arc |-> arc, map |-> map]

EmptyMap == <<>>

Insert(map, name, value) == (name :> value) @@ map

Remove(map, name) == [k \in DOMAIN map \ {name} |-> map[k]]

BorrowedValue(value, references) == [value |-> value, references |-> references]

\* DeclaredValue<Value>
DeclaredValueValue(value) == [kind |-> "Value", value |-> value]
DeclaredValueInitial == [kind |-> "Initial"]
DeclaredValueInherit == [kind |-> "Inherit"]

(***************************************************************************)
(* cascade: one declaration offered to the map of this element.            *)
(***************************************************************************)
\* The map a first declaration is added to: the map of this element, made
\* of the inherited values, without references, when there is none yet.
MaterializedMap(custom_properties, inherited_custom_properties) ==
    IF custom_properties.some
    THEN custom_properties.map
    ELSE IF inherited_custom_properties.some
         THEN [key \in DOMAIN inherited_custom_properties.map |->
                 BorrowedValue(inherited_custom_properties.map[key], None)]
         ELSE EmptyMap

\* A plausible slip: `initial` leaves the inherited entry in the map.
DeclareKeepingInitial(map, name, value) ==
    CASE value.kind = "Value" ->
             Insert(map, name, BorrowedValue(value.value.value,
                                             SomeReferences(value.value.references)))
      [] value.kind = "Initial" -> map
      [] value.kind = "Inherit" -> map

\* A plausible slip: `inherit` removes the entry, as `initial` does.
DeclareInheritRemoves(map, name, value) ==
    CASE value.kind = "Value" ->
             Insert(map, name, BorrowedValue(value.value.value,
                                             SomeReferences(value.value.references)))
      [] value.kind = "Initial" -> Remove(map, name)
      [] value.kind = "Inherit" -> Remove(map, name)

\* match *value
Declare(map, name, value) ==
    CASE value.kind = "Value" ->
             Insert(map, name, BorrowedValue(value.value.value,
                                             SomeReferences(value.value.references)))
      [] value.kind = "Initial" -> Remove(map, name)
      [] value.kind = "Inherit" -> map

\* A plausible slip: a later declaration of a name is not ignored.
cascade_unseen(custom_properties, inherited_custom_properties, seen, name, value) ==
    [seen |-> seen \cup {name},
     custom_properties |->
         SomeMap(Declare(MaterializedMap(custom_properties, inherited_custom_properties),
                         name, value))]

cascade(custom_properties, inherited_custom_properties, seen, name, value) ==
    LET was_not_already_present == name \notin seen
    IN  IF was_not_already_present
        THEN [seen |-> seen \cup {name},
              custom_properties |->
                  SomeMap(Declare(MaterializedMap(custom_properties,
                                                  inherited_custom_properties),
                                  name, value))]
        ELSE [seen |-> seen, custom_properties |-> custom_properties]

(***************************************************************************)
(* The order a HashMap's keys and a HashSet's elements are iterated in is  *)
(* not specified: a key order enumerates the keys of the map, a reference  *)
(* order gives an enumeration of each value's reference set.               *)
(***************************************************************************)
Enumerations(S) ==
    {s \in [1..Cardinality(S) -> S] : \A i, j \in 1..Cardinality(S) : s[i] = s[j] => i = j}

KeyOrders(map) == Enumerations(DOMAIN map)

RECURSIVE ReferenceOrdersOf(_, _)
ReferenceOrdersOf(map, keys) ==
    IF keys = {} THEN {<<>>}
    ELSE LET k == CHOOSE k \in keys : TRUE
         IN  {(k :> s) @@ f : s \in Enumerations(map[k].references.set),
                              f \in ReferenceOrdersOf(map, keys \ {k})}

ReferenceOrders(map) ==
    ReferenceOrdersOf(map, {k \in DOMAIN map : map[k].references.some})

(***************************************************************************)
(* find_cycles                                                             *)
(***************************************************************************)
\* A plausible slip: a name on the stack is never found.
PositionElemNever(stack, name) == 0

\* A plausible slip: the whole stack is taken for the cycle.
PositionElemBottom(stack, name) ==
    IF \E i \in 1..Len(stack) : stack[i] = name THEN 1 ELSE 0

\* stack.position_elem(&name): 0 for None
PositionElem(stack, name) ==
    IF \E i \in 1..Len(stack) : stack[i] = name
    THEN CHOOSE i \in 1..Len(stack) :
             stack[i] = name /\ \A j \in 1..(i - 1) : stack[j] # name
    ELSE 0

RECURSIVE walk(_, _, _, _)
RECURSIVE walk_references(_, _, _, _, _)

\* w is the stack, the visited set and the invalid set of find_cycles.
walk(map, name, w, order) ==
    IF name \in w.visited THEN w
    ELSE IF name \in DOMAIN map /\ map[name].references.some
    THEN Let(walk_references(map, order[name], 1,
                             [w EXCEPT !.visited = @ \cup {name},
                                       !.stack = Append(@, name)],
                             order),
             LAMBDA w2 : [w2 EXCEPT !.stack = SubSeq(@, 1, Len(@) - 1)])
    ELSE [w EXCEPT !.visited = @ \cup {name}]

\* for next in references, from the i-th on
walk_references(map, references, i, w, order) ==
    IF i > Len(references) THEN w
    ELSE Let(PositionElem(w.stack, references[i]), LAMBDA position :
             Let(IF position # 0
                 THEN [w EXCEPT !.invalid =
                          @ \cup {w.stack[j] : j \in position..Len(w.stack)}]
                 ELSE walk(map, references[i], w, order),
                 LAMBDA w1 : walk_references(map, references, i + 1, w1, order)))

RECURSIVE find_cycles_keys(_, _, _, _, _)
find_cycles_keys(map, keys, i, w, order) ==
    IF i > Len(keys) THEN w
    ELSE Let(walk(map, keys[i], w, order),
             LAMBDA w1 : find_cycles_keys(map, keys, i + 1, w1, order))

\* A plausible slip: no cycle is recorded.
find_cycles_none(map, keys, order) == {}

find_cycles(map, keys, order) ==
    find_cycles_keys(map, keys, 1, [stack |-> <<>>, visited |-> {}, invalid |-> {}],
                     order).invalid

(***************************************************************************)
(* Substitution.  s is what one finish_cascade accumulates: the map of the *)
(* substituted values and the invalid set, with the names whose value is   *)
(* being scanned (resolving), how many times each value was scanned        *)
(* (scans), and whether a name was entered again while still being         *)
(* resolved (revisited), where the code would recurse without end.         *)
(***************************************************************************)
\* Option<&mut String>
SomeString(text) == [some |-> TRUE, text |-> text]

\* substituted.push_str(value) on an Option<&mut String>
PushStr(substituted, value) ==
    IF substituted.some THEN SomeString(substituted.text \o value) ELSE substituted

\* A plausible slip: the fallback is not skipped.
SkipRestNothing(src, input, stop) == input

\* while let Ok(_) = input.next() {}
RECURSIVE SkipRest(_, _, _)
SkipRest(src, input, stop) ==
    Let(next(src, input, stop), LAMBDA t :
        IF t.ok THEN SkipRest(src, t.input, stop) ELSE t.input)

RECURSIVE substitute_one(_, _, _, _, _)
RECURSIVE SubstituteValue(_, _, _, _, _)
RECURSIVE substitute_block(_, _, _, _, _, _, _)
RECURSIVE SubstituteVar(_, _, _, _, _, _)
RECURSIVE SubstituteNested(_, _, _, _, _, _, _)

OneErr(substituted, s) == [ok |-> FALSE, substituted |-> substituted, s |-> s]

OneOk(substituted, s) == [ok |-> TRUE, substituted |-> substituted, s |-> s]

\* A plausible slip: an invalid name is skipped, Ok(()), not an error.
substitute_one_skipping_invalid(name, value, custom_properties, substituted, s) ==
    IF name \in DOMAIN s.substituted_map
    THEN OneOk(PushStr(substituted, s.substituted_map[name]), s)
    ELSE IF name \in s.invalid
    THEN OneOk(substituted, s)
    ELSE SubstituteValue(name, value, custom_properties, substituted, s)

\* A plausible slip: the invalid set is not looked at.
substitute_one_unchecked(name, value, custom_properties, substituted, s) ==
    IF name \in DOMAIN s.substituted_map
    THEN OneOk(PushStr(substituted, s.substituted_map[name]), s)
    ELSE SubstituteValue(name, value, custom_properties, substituted, s)

substitute_one(name, value, custom_properties, substituted, s) ==
    IF name \in DOMAIN s.substituted_map
    THEN OneOk(PushStr(substituted, s.substituted_map[name]), s)
    ELSE IF name \in s.invalid
    THEN OneErr(substituted, s)
    ELSE SubstituteValue(name, value, custom_properties, substituted, s)

\* The value of a name that is neither substituted yet nor invalid.  A name
\* entered again while its value is being scanned is where the code would
\* recurse without end: the model records it and gives up on the name.
SubstituteValue(name, value, custom_properties, substituted, s) ==
    IF value.references.some /\ value.references.set # {}
    THEN IF name \in s.resolving
         THEN OneErr(substituted, [s EXCEPT !.revisited = TRUE])
         ELSE Let(substitute_block(
                      custom_properties, value.value, NewParser, NoBlock, 1, <<>>,
                      [s EXCEPT !.resolving = @ \cup {name}, !.scans[name] = @ + 1]),
                  LAMBDA b :
                  IF ~b.ok
                  THEN OneErr(substituted,
                              [b.s EXCEPT !.invalid = @ \cup {name},
                                          !.resolving = @ \ {name}])
                  ELSE Let(b.substituted \o Slice(value.value, b.start, b.input.pos),
                           LAMBDA text :
                           OneOk(PushStr(substituted, text),
                                 [b.s EXCEPT !.substituted_map = Insert(@, name, text),
                                             !.resolving = @ \ {name}])))
    ELSE OneOk(PushStr(substituted, value.value),
               [s EXCEPT !.substituted_map = Insert(@, name, value.value)])

BlockErr(input, start, substituted, s) ==
    [ok |-> FALSE, input |-> input, start |-> start, substituted |-> substituted, s |-> s]

BlockOk(input, start, substituted, s) ==
    [ok |-> TRUE, input |-> input, start |-> start, substituted |-> substituted, s |-> s]

\* while let Ok(token) = input.next()
substitute_block(custom_properties, src, input, stop, start, substituted, s) ==
    Let(next(src, input, stop), LAMBDA t :
        IF ~t.ok THEN BlockOk(t.input, start, substituted, s)
        ELSE Let(IF t.token = VarFunction
                 THEN SubstituteVar(custom_properties, src, t.input, start, substituted, s)
                 ELSE IF BlockCloser(t.token) # NoBlock
                 THEN SubstituteNested(custom_properties, src, t.input,
                                       BlockCloser(t.token), start, substituted, s)
                 ELSE BlockOk(t.input, start, substituted, s),
                 LAMBDA r :
                 IF r.ok
                 THEN substitute_block(custom_properties, src, r.input, stop, r.start,
                                       r.substituted, r.s)
                 ELSE r))

\* Token::Function("var"), the parser being after that token: what was read
\* since start is pushed, then the value of the name, or the fallback when
\* the map has no entry for the name; start moves after the block.
SubstituteVar(custom_properties, src, input, start, substituted, s) ==
    Let(substituted \o Slice(src, start, input.pos), LAMBDA pushed :
    Let(next(src, NestedParser(input), ")"), LAMBDA ident :
    Let(StripPrefix[ident.token], LAMBDA name :
        IF name \in DOMAIN custom_properties
        THEN Let(substitute_one(name, custom_properties[name], custom_properties,
                                SomeString(pushed), s),
                 LAMBDA one :
                 IF ~one.ok THEN BlockErr(ident.input, start, pushed, one.s)
                 ELSE Let(parse_nested_block_end(
                              src, SkipRest(src, ident.input, ")"), ")"),
                          LAMBDA e :
                          IF e.ok
                          THEN BlockOk(e.input, e.input.pos, one.substituted.text, one.s)
                          ELSE BlockErr(e.input, start, one.substituted.text, one.s)))
        ELSE Let(next(src, ident.input, ")"), LAMBDA comma :
                 IF ~(comma.ok /\ comma.token = Comma)
                 THEN BlockErr(comma.input, start, pushed, s)
                 ELSE Let(substitute_block(custom_properties, src, comma.input, ")",
                                           comma.input.pos, pushed, s),
                          LAMBDA fallback :
                          IF ~fallback.ok THEN fallback
                          ELSE Let(parse_nested_block_end(src, fallback.input, ")"),
                                   LAMBDA e :
                                   BlockOk(e.input, e.input.pos,
                                           fallback.substituted
                                               \o Slice(src, fallback.start,
                                                        fallback.input.pos),
                                           fallback.s))))))) 

\* A block that is not a var() function, the parser being after its opening
\* token: substitute_block in the block, with the same start.
SubstituteNested(custom_properties, src, input, closer, start, substituted, s) ==
    Let(substitute_block(custom_properties, src, NestedParser(input), closer, start,
                         substituted, s),
        LAMBDA b :
        Let(parse_nested_block_end(src, b.input, closer), LAMBDA e :
            IF b.ok /\ e.ok THEN BlockOk(e.input, b.start, b.substituted, b.s)
                            ELSE BlockErr(e.input, b.start, b.substituted, b.s)))

(***************************************************************************)
(* finish_cascade                                                          *)
(***************************************************************************)
AllNames == {StripPrefix[tok] : tok \in DOMAIN StripPrefix}

\* A plausible slip: the first failure ends the loop (try!, not let _ =).
RECURSIVE substitute_keys_aborting(_, _, _, _)
substitute_keys_aborting(map, keys, i, s) ==
    IF i > Len(keys) THEN s
    ELSE Let(substitute_one(keys[i], map[keys[i]], map, None, s),
             LAMBDA one : IF one.ok THEN substitute_keys_aborting(map, keys, i + 1, one.s)
                                    ELSE one.s)

\* for (&name, value) in &custom_properties, from the i-th key on
RECURSIVE substitute_keys(_, _, _, _)
substitute_keys(map, keys, i, s) ==
    IF i > Len(keys) THEN s
    ELSE Let(substitute_one(keys[i], map[keys[i]], map, None, s),
             LAMBDA one : substitute_keys(map, keys, i + 1, one.s))

\* Arc::new: an allocation that is not the inherited one.
NewArc(inherited_custom_properties) ==
    IF inherited_custom_properties.some THEN inherited_custom_properties.arc + 1 ELSE 1

NoScans == [n \in AllNames |-> 0]

\* A plausible slip: a new map is built when no declaration was offered.
finish_cascade_unshared(custom_properties, inherited_custom_properties, keys, order) ==
    IF custom_properties.some
    THEN Let(find_cycles(custom_properties.map, keys, order), LAMBDA cycles :
         Let(substitute_keys(
                 custom_properties.map, keys, 1,
                 [substituted_map |-> EmptyMap, invalid |-> cycles, resolving |-> {},
                  scans |-> NoScans, revisited |-> FALSE]),
             LAMBDA s :
             [computed |-> SomeArc(NewArc(inherited_custom_properties), s.substituted_map),
              cyclic |-> cycles, invalid |-> s.invalid, scans |-> s.scans,
              revisited |-> s.revisited]))
    ELSE [computed |-> SomeArc(NewArc(inherited_custom_properties),
                               IF inherited_custom_properties.some
                               THEN inherited_custom_properties.map
                               ELSE EmptyMap),
          cyclic |-> {}, invalid |-> {}, scans |-> NoScans, revisited |-> FALSE]

\* The map finish_cascade returns (computed), with the invalid set as
\* find_cycles left it (cyclic) and what the substitution accumulated.
finish_cascade(custom_properties, inherited_custom_properties, keys, order) ==
    IF custom_properties.some
    THEN Let(find_cycles(custom_properties.map, keys, order), LAMBDA cycles :
         Let(substitute_keys(
                 custom_properties.map, keys, 1,
                 [substituted_map |-> EmptyMap, invalid |-> cycles, resolving |-> {},
                  scans |-> NoScans, revisited |-> FALSE]),
             LAMBDA s :
             [computed |-> SomeArc(NewArc(inherited_custom_properties), s.substituted_map),
              cyclic |-> cycles, invalid |-> s.invalid, scans |-> s.scans,
              revisited |-> s.revisited]))
    ELSE [computed |-> inherited_custom_properties,
          cyclic |-> {}, invalid |-> {}, scans |-> NoScans,
          revisited |-> FALSE]

(***************************************************************************)
(* One cascade of an element: the declarations offered to cascade, highest *)
(* priority first, then finish_cascade.                                    *)
(***************************************************************************)
VARIABLES
    inherited_custom_properties, \* the map of the parent element
    custom_properties,           \* the map of this element, None until a declaration
    seen,                        \* the names a declaration was offered for
    pc,                          \* "cascade", then "done" once finish_cascade returned
    computed,                    \* what finish_cascade returned
    cyclic,                      \* the invalid set as find_cycles left it
    invalid,                     \* the invalid set when finish_cascade returned
    scans,                       \* how many times each value was scanned
    revisited,                   \* a name was entered while still being resolved
    declared,                    \* the calls of cascade, without the later ones of a name
    ignored,                     \* how many later calls of a name were offered
    parse_input,                 \* the source text handed to parse
    parse_result                 \* what parse returned for it

vars == <<inherited_custom_properties, custom_properties, seen, pc, computed, cyclic,
          invalid, scans, revisited, declared, ignored, parse_input,
          parse_result>>

\* The later calls of cascade for a name already offered, at most.
MaxIgnored == 1

\* The names declarations are offered for.
Names == {"a", "b", "c"}

\* The text of an inherited value.
Red == <<"red">>

\* The maps of the parent element.
InheritedMaps == {None, SomeArc(1, ("a" :> Red))}

\* The texts of the declarations.
Var(name) == <<"var(", name, ")">>
VarFallback(name, fallback) == <<"var(", name, ",", " ">> \o fallback \o <<")">>
TwoVars(first, second) == Var(first) \o <<" ">> \o Var(second)
Calc(text) == <<"calc(">> \o text \o <<" ", "+", " ", "1px", ")">>

RawTexts ==
    {<<"1px">>,
     Var("--a"),
     Var("--b"),
     VarFallback("--a", <<"10px">>),
     VarFallback("--a", Var("--b")),
     Calc(Var("--b")),
     TwoVars("--b", "--b")}

Value(parsed) == [value |-> parsed.value, references |-> parsed.references]

DeclaredValues ==
    {DeclaredValueValue(Value(parse(text))) : text \in {t \in RawTexts : parse(t).ok}}
        \cup {DeclaredValueInitial, DeclaredValueInherit}

DeclaredNames == {declared[i].name : i \in 1..Len(declared)}

Init ==
    /\ inherited_custom_properties \in InheritedMaps
    /\ custom_properties = None
    /\ seen = {}
    /\ pc = "cascade"
    /\ computed = None
    /\ cyclic = {}
    /\ invalid = {}
    /\ scans = NoScans
    /\ revisited = FALSE
    /\ declared = <<>>
    /\ ignored = 0
    /\ parse_input = <<>>
    /\ parse_result = NoValue

Cascade(name, value) ==
    /\ pc = "cascade"
    /\ name \in DeclaredNames => ignored < MaxIgnored
    /\ \E c \in {cascade(custom_properties, inherited_custom_properties, seen, name,
                        value)} :
           /\ custom_properties' = c.custom_properties
           /\ seen' = c.seen
    /\ declared' = IF name \in DeclaredNames
                   THEN declared
                   ELSE Append(declared, [name |-> name, value |-> value])
    /\ ignored' = IF name \in DeclaredNames THEN ignored + 1 ELSE ignored
    /\ UNCHANGED <<inherited_custom_properties, pc, computed, cyclic, invalid, scans,
                   revisited, parse_input, parse_result>>

\* The key orders and reference orders finish_cascade can iterate in.
KeyOrdersOf(properties) == IF properties.some THEN KeyOrders(properties.map) ELSE {<<>>}
ReferenceOrdersIn(properties) ==
    IF properties.some THEN ReferenceOrders(properties.map) ELSE {<<>>}

FinishCascade ==
    /\ pc = "cascade"
    /\ \E keys \in KeyOrdersOf(custom_properties),
          order \in ReferenceOrdersIn(custom_properties) :
           \E f \in {finish_cascade(custom_properties, inherited_custom_properties,
                                    keys, order)} :
               /\ computed' = f.computed
               /\ cyclic' = f.cyclic
               /\ invalid' = f.invalid
               /\ scans' = f.scans
               /\ revisited' = f.revisited
    /\ pc' = "done"
    /\ UNCHANGED <<inherited_custom_properties, custom_properties, seen, declared, ignored,
                   parse_input, parse_result>>

Next ==
    \/ \E name \in Names, value \in DeclaredValues : Cascade(name, value)
    \/ FinishCascade

Spec == Init /\ [][Next]_vars

(***************************************************************************)
(* The same cascade, taken up once the declarations of a, b, c and         *)
(* possibly d were offered, for reference graphs with longer and           *)
(* overlapping cycles: x is inherited or absent, u has no declaration.     *)
(***************************************************************************)
GraphTexts ==
    [a |-> {TwoVars("--b", "--c"), Var("--b")},
     b |-> {Var("--a"), <<"1px">>},
     c |-> {VarFallback("--x", Var("--b")), Var("--b")},
     d |-> {TwoVars("--c", "--u"), Var("--u")}]

GraphInheritedMaps == {None, SomeArc(1, ("x" :> Red))}

Declaration(name, text) ==
    [name |-> name, value |-> DeclaredValueValue(Value(parse(text)))]

GraphDeclarations ==
    {<<Declaration("a", ta), Declaration("b", tb), Declaration("c", tc)>> \o rest :
        ta \in GraphTexts.a, tb \in GraphTexts.b, tc \in GraphTexts.c,
        rest \in {<<>>} \cup {<<Declaration("d", td)>> : td \in GraphTexts.d}}

\* The map the calls of `declarations` build, one after the other.
RECURSIVE CascadeAll(_, _, _)
CascadeAll(inherited, declarations, i) ==
    IF i = 0 THEN [seen |-> {}, custom_properties |-> None]
    ELSE Let(CascadeAll(inherited, declarations, i - 1), LAMBDA before :
             cascade(before.custom_properties, inherited, before.seen,
                     declarations[i].name, declarations[i].value))

InitFinish ==
    /\ inherited_custom_properties \in GraphInheritedMaps
    /\ declared \in GraphDeclarations
    /\ \E c \in {CascadeAll(inherited_custom_properties, declared, Len(declared))} :
           /\ custom_properties = c.custom_properties
           /\ seen = c.seen
    /\ pc = "cascade"
    /\ computed = None
    /\ cyclic = {}
    /\ invalid = {}
    /\ scans = NoScans
    /\ revisited = FALSE
    /\ ignored = 0
    /\ parse_input = <<>>
    /\ parse_result = NoValue

SpecFinish == InitFinish /\ [][Next]_vars

(***************************************************************************)
(* parse alone: a source text is handed to parse, which returns its value  *)
(* and references, or an error.  The texts are every sequence of at most   *)
(* MaxBody tokens, alone and as the content of a block, of nested blocks   *)
(* and of a var() function, after its name or as its fallback.             *)
(***************************************************************************)
MaxBody == 3

ParseTokens ==
    {"1px", "blue", "--a", "--b", WhiteSpace, Comma, Semicolon, DelimBang,
     VarFunction, "(", "[", "{"}
        \cup OtherFunctions \cup BadTokens \cup CloseTokens

Bodies == UNION {[1..n -> ParseTokens] : n \in 0..MaxBody}

BlockOpeners == {"(", "[", "{"} \cup OtherFunctions

\* body as the content of the block `opener` opens
InBlock(opener, body) == <<opener>> \o body \o <<BlockCloser(opener)>>

\* var(name, body) and var(name body)
VarComma(name, body) == <<VarFunction, name, Comma>> \o body \o <<")">>
VarNoComma(name, body) == <<VarFunction, name>> \o body \o <<")">>

ParseTexts ==
    Bodies
        \cup {InBlock(opener, body) : opener \in BlockOpeners, body \in Bodies}
        \cup {InBlock("(", InBlock("[", body)) : body \in Bodies}
        \cup {VarComma("--a", body) : body \in Bodies}
        \cup {VarNoComma("--a", body) : body \in Bodies}
        \cup {InBlock("calc(", VarComma("--a", body)) : body \in Bodies}

InitParse ==
    /\ parse_input \in ParseTexts
    /\ parse_result = NoValue
    /\ pc = "parse"
    /\ inherited_custom_properties = None
    /\ custom_properties = None
    /\ seen = {}
    /\ computed = None
    /\ cyclic = {}
    /\ invalid = {}
    /\ scans = NoScans
    /\ revisited = FALSE
    /\ declared = <<>>
    /\ ignored = 0

Parse ==
    /\ pc = "parse"
    /\ parse_result' = parse(parse_input)
    /\ pc' = "parsed"
    /\ UNCHANGED <<inherited_custom_properties, custom_properties, seen, computed, cyclic,
                   invalid, scans, revisited, declared, ignored, parse_input>>

NextParse == Parse

SpecParse == InitParse /\ [][NextParse]_vars

(***************************************************************************)
(* What the properties below speak of.                                     *)
(***************************************************************************)
Done == pc = "done"

\* The map finish_cascade worked on, and the names of the map it returned.
Map == custom_properties.map
Computed == IF computed.some THEN computed.map ELSE EmptyMap
Present(name) == name \in DOMAIN Computed
References(name) ==
    IF name \in DOMAIN Map /\ Map[name].references.some
    THEN Map[name].references.set
    ELSE {}

\* The var() calls of a text outside the fallback of any var() call, from
\* position pos on: the name of each, and whether a comma follows the name.
RECURSIVE VarCalls(_, _)
VarCalls(src, pos) ==
    IF pos > Len(src) THEN {}
    ELSE IF src[pos] = VarFunction
    THEN Let(next(src, [pos |-> pos + 1, at_start_of |-> NoBlock], ")"), LAMBDA ident :
         Let(next(src, ident.input, ")"), LAMBDA comma :
             {[name |-> StripPrefix[ident.token],
               fallback |-> comma.ok /\ comma.token = Comma]}
                 \cup VarCalls(src, consume_until_end_of_block(src, pos + 1, ")"))))
    ELSE VarCalls(src, pos + 1)

VarCallsOf(name) ==
    IF name \in DOMAIN Map /\ Map[name].references.some
    THEN VarCalls(Map[name].value, 1)
    ELSE {}

HasText(name, text) == name \in DOMAIN Map /\ Map[name].value = text

(***************************************************************************)
(* C1: a var(--n, fallback) whose name n is in the map and does not        *)
(* resolve makes the enclosing property absent from the computed map: the  *)
(* fallback is not used.  With --a: var(--b), --b: var(--a) and            *)
(* --c: var(--a, 10px), none of a, b, c is in the computed map.            *)
(***************************************************************************)
C1_InvalidNameNoFallback ==
    Done /\ custom_properties.some =>
        /\ \A p \in DOMAIN Map : \A call \in VarCallsOf(p) :
               (call.fallback /\ call.name \in DOMAIN Map /\ ~Present(call.name))
                   => ~Present(p)
        /\ (/\ HasText("a", Var("--b"))
            /\ HasText("b", Var("--a"))
            /\ HasText("c", VarFallback("--a", <<"10px">>)))
               => ~Present("a") /\ ~Present("b") /\ ~Present("c")

C1_Witness ==
    /\ Done /\ custom_properties.some
    /\ HasText("a", Var("--b"))
    /\ HasText("b", Var("--a"))
    /\ HasText("c", VarFallback("--a", <<"10px">>))

(***************************************************************************)
(* C2: finish_cascade returns, and a property that refers to itself, and   *)
(* both of two properties that refer to each other, are absent from the    *)
(* computed map, in whatever order the keys and references are iterated.   *)
(***************************************************************************)
C2_CyclesAbsent ==
    Done /\ custom_properties.some =>
        /\ ~revisited
        /\ \A a \in DOMAIN Map :
               /\ a \in References(a) => ~Present(a)
               /\ \A b \in DOMAIN Map :
                      (b \in References(a) /\ a \in References(b))
                          => ~Present(a) /\ ~Present(b)

C2_Witness ==
    /\ Done /\ custom_properties.some
    /\ HasText("a", Var("--b"))
    /\ HasText("b", Var("--a"))
    /\ cyclic = {"a", "b"}

(***************************************************************************)
(* C3: only the first call of cascade for a name has an effect: the map is *)
(* the map the calls build without the later calls of each name.           *)
(***************************************************************************)
C3_FirstDeclarationWins ==
    \E first \in {CascadeAll(inherited_custom_properties, declared, Len(declared))} :
        /\ custom_properties = first.custom_properties
        /\ seen = first.seen

C3_Witness ==
    /\ ignored > 0
    /\ \E i \in 1..Len(declared) : declared[i].value.kind = "Initial"
    /\ \E i \in 1..Len(declared) : declared[i].value.kind = "Inherit"
    /\ \E i \in 1..Len(declared) : declared[i].value.kind = "Value"

(***************************************************************************)
(* C4: a name whose first declaration is `initial` is absent from the      *)
(* computed map, also when the inherited map has it and a later            *)
(* declaration gives it a value.                                           *)
(***************************************************************************)
C4_InitialAbsent ==
    Done => \A i \in 1..Len(declared) :
                declared[i].value.kind = "Initial" => ~Present(declared[i].name)

C4_Witness ==
    /\ Done
    /\ inherited_custom_properties.some
    /\ "a" \in DOMAIN inherited_custom_properties.map
    /\ declared # <<>> /\ declared[1] = [name |-> "a", value |-> DeclaredValueInitial]
    /\ ignored > 0

(***************************************************************************)
(* C9: when no declaration was offered, finish_cascade returns the         *)
(* inherited map itself, the same allocation; a new map is returned only   *)
(* when a declaration was offered.                                         *)
(***************************************************************************)
C9_InheritedShared ==
    Done =>
        /\ declared = <<>> => computed = inherited_custom_properties
        /\ computed # inherited_custom_properties => declared # <<>>
        /\ (computed.some /\ inherited_custom_properties.some
                /\ computed.arc = inherited_custom_properties.arc)
               => declared = <<>>

C9_Witness ==
    /\ Done
    /\ declared = <<>>
    /\ inherited_custom_properties.some
    /\ computed.some /\ computed.arc = inherited_custom_properties.arc

(***************************************************************************)
(* C10: finish_cascade returns for every map, whatever the cycles of its   *)
(* references: no name is entered again while its value is being scanned.  *)
(***************************************************************************)
C10_NoNameRevisited == Done => ~revisited

\* a -> b -> a and a -> c -> b -> a: c is reached when b was already left.
C10_Witness ==
    /\ Done /\ custom_properties.some
    /\ HasText("a", TwoVars("--b", "--c"))
    /\ HasText("b", Var("--a"))
    /\ HasText("c", Var("--b"))
    /\ cyclic = {"a", "b"}

(***************************************************************************)
(* C6: --d: var(--n, fallback), with no entry for n in the map, is in the  *)
(* computed map and its text is the fallback, put in place of the whole    *)
(* var() call (the white space after the comma kept or not); a var() call  *)
(* in the fallback is substituted by the same rules.                       *)
(***************************************************************************)
LiteralFallbacks == {<<"10px">>}

C6_FallbackText ==
    Done /\ custom_properties.some =>
        \A d \in DOMAIN Map : \A n \in DOMAIN StripPrefix :
            StripPrefix[n] \notin DOMAIN Map =>
                /\ \A fallback \in LiteralFallbacks :
                       HasText(d, VarFallback(n, fallback))
                           => Present(d) /\ Computed[d] \in {fallback, <<" ">> \o fallback}
                /\ \A m \in DOMAIN StripPrefix :
                       (HasText(d, VarFallback(n, Var(m))) /\ Present(StripPrefix[m]))
                           => /\ Present(d)
                              /\ Computed[d] \in {Computed[StripPrefix[m]],
                                                  <<" ">> \o Computed[StripPrefix[m]]}

(***************************************************************************)
(* C7: the text of a property that resolves is its value with each whole   *)
(* var() call, from the function name to its closing parenthesis, replaced *)
(* by the computed text of the name, everything else kept verbatim:        *)
(* calc(var(--b) + 1px) with --b: 1px gives calc(1px + 1px).                *)
(***************************************************************************)
RECURSIVE Replaced(_, _)
Replaced(src, pos) ==
    IF pos > Len(src) THEN <<>>
    ELSE IF src[pos] = VarFunction
    THEN Computed[StripPrefix[src[pos + 1]]]
             \o Replaced(src, consume_until_end_of_block(src, pos + 1, ")"))
    ELSE <<src[pos]>> \o Replaced(src, pos + 1)

C7_WholeCallReplaced ==
    Done /\ custom_properties.some =>
        /\ \A p \in DOMAIN Map :
               (Present(p) /\ \A call \in VarCallsOf(p) : Present(call.name))
                   => Computed[p] = Replaced(Map[p].value, 1)
        /\ \A p \in DOMAIN Map :
               (HasText(p, Calc(Var("--b"))) /\ HasText("b", <<"1px">>))
                   => /\ Present(p)
                      /\ Computed[p] = <<"calc(", "1px", " ", "+", " ", "1px", ")">>

(***************************************************************************)
(* C8: in one finish_cascade the value of a name is scanned at most once,  *)
(* and --x: var(--b) var(--b) with --b: 1px gives "1px 1px".               *)
(***************************************************************************)
ScannedAtMostOnce == \A n \in AllNames : scans[n] <= 1

\* Each name of the map is scanned at most once and ends up substituted
\* or invalid: the part of C8 that does not speak of the text.
ResolvedOrInvalid ==
    Done /\ custom_properties.some =>
        /\ ScannedAtMostOnce
        /\ \A n \in DOMAIN Map : Present(n) \/ n \in invalid

C8_ResolvedOnce ==
    Done /\ custom_properties.some =>
        /\ ScannedAtMostOnce
        /\ \A n \in DOMAIN Map : Present(n) \/ n \in invalid
        /\ \A x \in DOMAIN Map :
               (HasText(x, TwoVars("--b", "--b")) /\ HasText("b", <<"1px">>))
                   => Present(x) /\ Computed[x] = <<"1px", " ", "1px">>

(***************************************************************************)
(* C5: a property with a var(--n) without fallback, n having no entry in   *)
(* the map, is absent from the computed map, and every other property      *)
(* that does not depend on it is computed as it is without that property,  *)
(* the keys and references being iterated in the same order.               *)
(***************************************************************************)
\* The names whose references lead to a name of R.
RECURSIVE DependentsOf(_)
DependentsOf(R) ==
    Let(R \cup {n \in DOMAIN Map : References(n) \cap R # {}}, LAMBDA more :
        IF more = R THEN R ELSE DependentsOf(more))

HasUndeclaredVar(e) ==
    \E call \in VarCallsOf(e) : ~call.fallback /\ call.name \notin DOMAIN Map

Without(keys, e) == SelectSeq(keys, LAMBDA k : k # e)

\* The computed map is the same for p, in f and in g.
SameFor(p, f, g) ==
    /\ p \in DOMAIN f.computed.map <=> p \in DOMAIN g.computed.map
    /\ p \in DOMAIN f.computed.map => f.computed.map[p] = g.computed.map[p]

\* finish_cascade with these orders gives what this state holds.
IsThisFinish(f) ==
    /\ f.computed = computed
    /\ f.cyclic = cyclic
    /\ f.invalid = invalid
    /\ f.scans = scans

UndeclaredAbsent ==
    Done /\ custom_properties.some =>
        \A e \in DOMAIN Map : HasUndeclaredVar(e) => ~Present(e)

C5_UndeclaredIsLocal ==
    Done /\ custom_properties.some =>
        \A e \in DOMAIN Map : HasUndeclaredVar(e) =>
            /\ ~Present(e)
            /\ \A keys \in KeyOrders(Map), order \in ReferenceOrders(Map) :
                   \A f \in {finish_cascade(custom_properties, inherited_custom_properties,
                                            keys, order)} :
                       IsThisFinish(f) =>
                           \A g \in {finish_cascade(
                                         SomeMap(Remove(Map, e)), inherited_custom_properties,
                                         Without(keys, e), Remove(order, e))} :
                               \A p \in DOMAIN Map \ DependentsOf({e}) : SameFor(p, f, g)

(***************************************************************************)
(* What the properties of parse speak of.                                  *)
(***************************************************************************)
Parsed == pc = "parsed"

\* The tokens that open the blocks still open before position i.
RECURSIVE OpenBlocks(_, _)
OpenBlocks(src, i) ==
    IF i <= 1 THEN <<>>
    ELSE Let(OpenBlocks(src, i - 1), LAMBDA open :
             IF BlockCloser(src[i - 1]) # NoBlock
             THEN Append(open, src[i - 1])
             ELSE IF open # <<>> /\ src[i - 1] = BlockCloser(open[Len(open)])
             THEN SubSeq(open, 1, Len(open) - 1)
             ELSE open)

\* The closing token at position i closes no open block.
UnmatchedCloser(src, i) ==
    /\ src[i] \in CloseTokens
    /\ Let(OpenBlocks(src, i), LAMBDA open :
           open = <<>> \/ src[i] # BlockCloser(open[Len(open)]))

\* Every block of the text is closed in it, and it closes no other block.
SelfContained(src) ==
    /\ OpenBlocks(src, Len(src) + 1) = <<>>
    /\ \A i \in 1..Len(src) : ~UnmatchedCloser(src, i)

\* The text is var(--a, F): F is its fallback.
IsVarComma ==
    /\ Len(parse_input) >= 4
    /\ SubSeq(parse_input, 1, 3) = <<VarFunction, "--a", Comma>>
    /\ parse_input[Len(parse_input)] = ")"
    /\ SelfContained(SubSeq(parse_input, 4, Len(parse_input) - 1))

Fallback == SubSeq(parse_input, 4, Len(parse_input) - 1)

\* The nested rule accepts F as the whole content of a block.
NestedRuleAccepts(F) ==
    ParseBlock(InBlock("(", F), [pos |-> 2, at_start_of |-> NoBlock], ")", {}).ok

\* The top-level rule accepts F as a whole value.
TopLevelRuleAccepts(F) == parse(F).ok

(***************************************************************************)
(* C12: the fallback of a var() function is scanned by the nested rule:    *)
(* parse accepts var(--a, F) exactly when parse_declaration_value_block    *)
(* accepts F, so var(--a, !) and var(--a, ;) are accepted.                 *)
(***************************************************************************)
C12_FallbackNestedRule ==
    Parsed /\ IsVarComma =>
        /\ parse_result.ok <=> NestedRuleAccepts(Fallback)
        /\ Fallback \in {<<DelimBang>>, <<Semicolon>>} => parse_result.ok

(***************************************************************************)
(* C12, amended: the fallback of a var() function is scanned by the        *)
(* top-level rule: parse accepts var(--a, F) exactly when                  *)
(* parse_declaration_value accepts F as a value, so an empty fallback and  *)
(* a fallback with a bare "!" or ";" at its own level are parse errors.    *)
(***************************************************************************)
C12_FallbackTopLevelRule ==
    Parsed /\ IsVarComma =>
        /\ parse_result.ok <=> TopLevelRuleAccepts(Fallback)
        /\ Fallback \in {<<>>, <<DelimBang>>, <<Semicolon>>} => ~parse_result.ok

C12_Witness ==
    /\ Parsed
    /\ parse_input = VarComma("--a", <<"(", DelimBang, ")">>)
    /\ parse_result.ok

\* The names of the var() functions of a text, wherever they are: the
\* custom property name that follows a var( token, without its prefix.
VarNames(src) ==
    {StripPrefix[src[SkipWhiteSpace(src, i + 1)]] :
        i \in {j \in 1..Len(src) :
                  /\ src[j] = VarFunction
                  /\ SkipWhiteSpace(src, j + 1) <= Len(src)
                  /\ src[SkipWhiteSpace(src, j + 1)] \in DOMAIN StripPrefix}}

\* A var() function whose name is followed by a token that is no comma:
\* expect_comma reads that token and its error is not propagated.
NameThenNoComma(src) ==
    \E i \in 1..Len(src) :
        /\ src[i] = VarFunction
        /\ Let(SkipWhiteSpace(src, SkipWhiteSpace(src, i + 1) + 1), LAMBDA k :
               k <= Len(src) /\ src[k] \notin {Comma, ")"})

(***************************************************************************)
(* C13: when parse succeeds, the references are exactly the names of the   *)
(* var() functions of the value, at any depth, in fallbacks and in other   *)
(* blocks, none when the value has no var( token, and the value is the     *)
(* source text unchanged.                                                  *)
(***************************************************************************)
C13_ReferencesExact ==
    Parsed /\ parse_result.ok =>
        /\ parse_result.references = VarNames(parse_input)
        /\ (\A i \in 1..Len(parse_input) : parse_input[i] # VarFunction)
               => parse_result.references = {}
        /\ parse_result.value = parse_input

\* The same, for the texts where every name of a var() function is
\* followed by a comma or by the end of the function.
ReferencesExactWithComma ==
    Parsed /\ parse_result.ok /\ ~NameThenNoComma(parse_input) =>
        /\ parse_result.references = VarNames(parse_input)
        /\ parse_result.value = parse_input

\* The references are names of var() functions of the value, and the value
\* is the source text.
ReferencesAreVarNames ==
    Parsed /\ parse_result.ok =>
        /\ parse_result.references \subseteq VarNames(parse_input)
        /\ parse_result.value = parse_input

\* The text with "1px" in place of each "!" and ";".
Neutral(src) ==
    [i \in 1..Len(src) |-> IF src[i] \in {DelimBang, Semicolon} THEN "1px" ELSE src[i]]

\* Each "!" and ";" of the text is in a block, the innermost one being a
\* parenthesis, square, curly or non-var function block.
BangsInBlocks(src) ==
    \A i \in 1..Len(src) :
        src[i] \in {DelimBang, Semicolon} =>
            Let(OpenBlocks(src, i), LAMBDA open :
                open # <<>> /\ open[Len(open)] # VarFunction)

ZeroTokens(src) == \A i \in 1..Len(src) : src[i] = WhiteSpace

\* A token no value may have at its top level is at the top level.
BadAtTopLevel(src) ==
    \E i \in 1..Len(src) :
        /\ OpenBlocks(src, i) = <<>>
        /\ src[i] \in BadTokens \cup CloseTokens \cup {DelimBang, Semicolon}

\* A malformed url or string, or a closing token that closes nothing, at
\* any depth.
BadAtAnyDepth(src) ==
    \E i \in 1..Len(src) : src[i] \in BadTokens \/ UnmatchedCloser(src, i)

(***************************************************************************)
(* C14: parse returns an error for a value without tokens and for a value  *)
(* with a malformed url or string, an unmatched closing token, a "!" or a  *)
(* ";" at its top level; "!" and ";" in a parenthesis, square, curly or    *)
(* non-var function block cause no error; a malformed url or string and an *)
(* unmatched closing token cause an error at every depth.                  *)
(***************************************************************************)
C14_ParseErrors ==
    Parsed =>
        /\ ZeroTokens(parse_input) => ~parse_result.ok
        /\ BadAtTopLevel(parse_input) => ~parse_result.ok
        /\ BangsInBlocks(parse_input)
               => (parse_result.ok <=> parse(Neutral(parse_input)).ok)
        /\ BadAtAnyDepth(parse_input) => ~parse_result.ok

\* The same, without the last part.
ParseErrorsAtTopLevel ==
    Parsed =>
        /\ ZeroTokens(parse_input) => ~parse_result.ok
        /\ BadAtTopLevel(parse_input) => ~parse_result.ok
        /\ BangsInBlocks(parse_input)
               => (parse_result.ok <=> parse(Neutral(parse_input)).ok)

\* The last part, for the texts where every name of a var() function is
\* followed by a comma or by the end of the function.
BadAtAnyDepthWithComma ==
    Parsed /\ ~NameThenNoComma(parse_input) /\ BadAtAnyDepth(parse_input)
        => ~parse_result.ok

(***************************************************************************)
(* The reference graph of the map: an edge from a key to each name of its  *)
(* reference set that is a key too.                                        *)
(***************************************************************************)
Edges(n) == References(n) \cap DOMAIN Map

\* The keys a path of one edge or more leads to from the keys of R.
RECURSIVE ReachedFrom(_)
ReachedFrom(R) ==
    Let(R \cup UNION {Edges(m) : m \in R}, LAMBDA more :
        IF more = R THEN R ELSE ReachedFrom(more))

OnCycle(n) == n \in DOMAIN Map /\ n \in ReachedFrom(Edges(n))

(***************************************************************************)
(* C11: finish_cascade returns the same map, the same names with the same  *)
(* texts, in whatever order the keys of the map and the references of each *)
(* value are iterated.                                                     *)
(***************************************************************************)
C11_OrderIndependent ==
    Done /\ custom_properties.some =>
        \A keys \in KeyOrders(Map), order \in ReferenceOrders(Map) :
            \A f \in {finish_cascade(custom_properties, inherited_custom_properties,
                                     keys, order)} :
                f.computed.map = Computed

(***************************************************************************)
(* C15: when find_cycles returns, every key of the map that is on a cycle  *)
(* of the reference graph is in the invalid set, in whatever order the     *)
(* keys and references are iterated.                                       *)
(***************************************************************************)
C15_EveryCycleMarked ==
    Done /\ custom_properties.some =>
        \A n \in DOMAIN Map : OnCycle(n) => n \in cyclic

\* Every cycle has a name in the invalid set.
SomeNameOfEachCycleMarked ==
    Done /\ custom_properties.some =>
        \A n \in DOMAIN Map :
            OnCycle(n) => \E m \in cyclic : m \in ReachedFrom(Edges(n))
                                             /\ n \in ReachedFrom(Edges(m))

(***************************************************************************)
(* C16: find_cycles puts in the invalid set only keys that are on a cycle  *)
(* of the reference graph: not a name that only leads to a cycle, one a    *)
(* cycle leads to, an inherited entry, or a name without entry.            *)
(***************************************************************************)
C16_OnlyCyclesMarked ==
    Done /\ custom_properties.some =>
        \A n \in cyclic : OnCycle(n)

\* d leads to the cycle of a, b and c and to u, which has no entry; the
\* cycle leads to the inherited x.
C16_Witness ==
    /\ Done /\ custom_properties.some
    /\ HasText("d", TwoVars("--c", "--u"))
    /\ HasText("c", VarFallback("--x", Var("--b")))
    /\ "x" \in DOMAIN Map /\ ~Map["x"].references.some
    /\ "u" \notin DOMAIN Map
    /\ {"a", "b"} \subseteq cyclic
    /\ OnCycle("c")
    /\ "d" \notin cyclic /\ "x" \notin cyclic /\ "u" \notin cyclic

(***************************************************************************)
(* C17: the invalid set and the keys of substituted_map are disjoint all   *)
(* through finish_cascade, so no name of the invalid set is in the map     *)
(* returned.  Both only grow in finish_cascade (the invalid set from what  *)
(* find_cycles left), so they are disjoint all through when they are at    *)
(* the end.                                                                *)
(***************************************************************************)
C17_InvalidNeverSubstituted ==
    Done /\ custom_properties.some =>
        /\ cyclic \subseteq invalid
        /\ invalid \cap DOMAIN Computed = {}

\* a and b are cyclic, d fails in the substitution, c is substituted.
C17_Witness ==
    /\ Done /\ custom_properties.some
    /\ cyclic = {"a", "b"}
    /\ "d" \in invalid
    /\ HasText("c", VarFallback("--x", Var("--b")))
    /\ Present("c")

(***************************************************************************)
(* C18: an entry without reference set (inherited) or with an empty one is *)
(* in the computed map with its text verbatim, whatever other properties   *)
(* are cyclic or fail; a property is absent only when it, or a name its    *)
(* references lead to, is on a cycle or refers to a name without entry.    *)
(***************************************************************************)
NoReferences(n) == ~Map[n].references.some \/ Map[n].references.set = {}

\* n is on a cycle or refers to a name that has no entry in the map.
MayFail(n) == OnCycle(n) \/ ~(References(n) \subseteq DOMAIN Map)

C18_FailureIsLocal ==
    Done /\ custom_properties.some =>
        /\ \A n \in DOMAIN Map :
               NoReferences(n) => Present(n) /\ Computed[n] = Map[n].value
        /\ \A p \in DOMAIN Map :
               ~Present(p) => \E q \in {p} \cup ReachedFrom(Edges(p)) : MayFail(q)

\* x is inherited, b has no reference, d fails.
C18_Witness ==
    /\ Done /\ custom_properties.some
    /\ "x" \in DOMAIN Map /\ ~Map["x"].references.some /\ Present("x")
    /\ HasText("b", <<"1px">>) /\ Present("b")
    /\ "d" \in DOMAIN Map /\ ~Present("d")

(***************************************************************************)
(* C19: a name whose first declaration is `inherit` has in the computed    *)
(* map the text the inherited map has for it, and is absent when the       *)
(* inherited map does not have it; later declarations of the name are      *)
(* ignored.                                                                *)
(***************************************************************************)
Inherited ==
    IF inherited_custom_properties.some THEN inherited_custom_properties.map ELSE EmptyMap

C19_InheritKeepsInherited ==
    Done => \A i \in 1..Len(declared) :
                declared[i].value.kind = "Inherit" =>
                    IF declared[i].name \in DOMAIN Inherited
                    THEN /\ Present(declared[i].name)
                         /\ Computed[declared[i].name] = Inherited[declared[i].name]
                    ELSE ~Present(declared[i].name)

C19_Witness ==
    /\ Done
    /\ declared = <<[name |-> "a", value |-> DeclaredValueInherit]>>
    /\ "a" \in DOMAIN Inherited
    /\ ignored > 0
    /\ Present("a")

(***************************************************************************)
(* The reference graph of any map, as above.                               *)
(***************************************************************************)
EdgesIn(map, n) ==
    IF n \in DOMAIN map /\ map[n].references.some
    THEN map[n].references.set \cap DOMAIN map
    ELSE {}

RECURSIVE ReachedIn(_, _)
ReachedIn(map, R) ==
    Let(R \cup UNION {EdgesIn(map, m) : m \in R}, LAMBDA more :
        IF more = R THEN R ELSE ReachedIn(map, more))

OnCycleIn(map, n) == n \in DOMAIN map /\ n \in ReachedIn(map, EdgesIn(map, n))

\* The fallbacks tried in place of the one a property has: a literal, a
\* var() of a name without entry, and a var() of each name.
OtherFallbacks ==
    {<<"10px">>, <<"blue">>, Var("--u")} \cup {Var("--a"), Var("--b"), Var("--c")}

\* The map with the text of p changed to var(n, fallback).
WithFallback(p, n, fallback) ==
    Let(parse(VarFallback(n, fallback)), LAMBDA v :
        Insert(Remove(Map, p), p, BorrowedValue(v.value, SomeReferences(v.references))))

\* p is var(n, F), and n has an entry in the map and is in the computed map.
FallbackUnused(p, n) ==
    /\ \E F \in {<<"10px">>, Var("--b")} : HasText(p, VarFallback(n, F))
    /\ StripPrefix[n] \in DOMAIN Map
    /\ Present(StripPrefix[n])

====
